---- MODULE Spec2Model ----
(***************************************************************************)
(* Model of air_data_generator.py: one producer (the main thread) that     *)
(* generates air-quality records onto a shared FIFO queue, NUM_THREADS     *)
(* worker threads (batch_insert_data) that dequeue, batch and insert them, *)
(* and the shutdown protocol (signal_handler / cleanup_resources).         *)
(*                                                                         *)
(* Times are integers (seconds).  The state starts at line 418: the pool   *)
(* exists, every worker thread has been started (none has run yet) and     *)
(* active_threads holds them all.                                          *)
(***************************************************************************)
EXTENDS Integers, Sequences, FiniteSets, Bags, TLC

\* ---- bounds of the model (the program's values are far larger) ----
\* BATCH_SIZE is 1000 and NUM_THREADS is 4 in the source (lines 28, 29).
BATCH_SIZE == 2
NUM_THREADS == 2
\* latest end_time tried (start_time is 0 or 1)
MaxEnd == 2
\* most devices tried (the source allows 1..100)
MaxDevices == 2
\* most store errors (mysql.connector.Error) injected in one run
MaxErrors == 1

Workers == 0 .. (NUM_THREADS - 1)

\* max_records is None when the user picks "no limit" (line 347); a limit is
\* always > 0 (line 351), so 0 stands for None.
NoLimit == 0
\* last_times[i] is None until the first flush (line 35); times are >= 0.
NoTime == -1

\* The stop sentinel: data_queue.put(None).  Record ids start at 1.
None == [id |-> 0, mn |-> 0, monitor_time |-> 0]

VARIABLES
    running,        \* line 38
    data_queue,     \* line 30: FIFO of records and sentinels
    gen,            \* line 15: the last id handed out by the id generator
    insert_counts,  \* line 33
    last_times,     \* line 35
    pool_idle,      \* connections sitting in connection_pool._cnx_queue (open)
    start_time, end_time, delta, device_count, max_records,  \* get_user_input
    main_pc,        \* where the main thread is
    current_time, dev, record_count,   \* locals of main (418, 419, 426)
    join_i,         \* index of the thread being joined (458 or 76)
    in_handler,     \* TRUE while cleanup_resources runs inside signal_handler
    w_pc,           \* where each worker is
    batch_data,     \* each worker's buffer (line 189)
    loop_i,         \* each worker's iterations done in `for _ in range(BATCH_SIZE)`
    conn,           \* whether each worker holds a pooled connection
    store,          \* committed rows of air_quality_monitoring: a bag of ids
    committed,      \* rows each worker has committed
    errors,         \* store errors raised so far
    generated,      \* every record the producer has enqueued
    failed_batches, \* batches logged as failed (lines 232-234)
    warned,         \* workers for which check_time_order printed a warning
    points,         \* the time points each worker has taken records of
    late_flushes    \* flushes each worker began with the running flag false

vars == <<running, data_queue, gen, insert_counts, last_times, pool_idle,
          start_time, end_time, delta, device_count, max_records,
          main_pc, current_time, dev, record_count, join_i, in_handler,
          w_pc, batch_data, loop_i, conn, store, committed, errors,
          generated, failed_batches, warned, points, late_flushes>>

inputs == <<start_time, end_time, delta, device_count, max_records>>
mainLocals == <<current_time, dev, record_count>>
workerVars == <<w_pc, batch_data, loop_i, conn>>
storeVars == <<store, committed, errors, failed_batches>>
stats == <<insert_counts, last_times, warned, points, late_flushes>>

\* ---- inputs (get_user_input) ----
\* interval choices second / minute / hour, scaled to 1 and 2 time units
Deltas == {1, 2}
StartTimes == {0, 1}
\* largest record cap tried
MaxCap == 2

\* ---- the queue (queue.Queue: FIFO, unbounded) ----
\* a LIFO queue in place of the FIFO one
PutFront(q, x) == <<x>> \o q
Put(q, x) == Append(q, x)
QueueFront(q) == Head(q)
QueueRest(q) == Tail(q)
HasSentinel(q) == \E k \in 1 .. Len(q) : q[k] = None

\* ---- the id generator: next(gen) ----
\* an id space that wraps around after two ids
NextIdWraps(g) == (g % 2) + 1
NextId(g) == g + 1

\* generate_air_quality_data(mn, monitor_time); the measurements are random
\* values that no control flow reads.
generate_air_quality_data(g, mn, t) ==
    [id |-> NextId(g), mn |-> mn, monitor_time |-> t]

\* the loop test with `<` for `<=`: the end point is left out
ProduceMoreStrict ==
    /\ running
    /\ current_time < end_time
    /\ (max_records = NoLimit \/ record_count < max_records)

\* the producer's loop test, line 424
ProduceMore ==
    /\ running
    /\ current_time <= end_time
    /\ (max_records = NoLimit \/ record_count < max_records)

\* a break test that looks at the running flag only
BreakForNoCap ==
    ~running

\* the break test inside the device loop, line 428
BreakFor ==
    \/ ~running
    \/ (max_records # NoLimit /\ record_count >= max_records)

\* a pool one connection short of the number of workers
pool_size_short == NUM_THREADS - 1
\* line 379: pool_config['pool_size'] = NUM_THREADS
pool_size == NUM_THREADS

Init ==
    /\ running = TRUE
    /\ data_queue = <<>>
    /\ gen = 0
    /\ insert_counts = [i \in Workers |-> 0]
    /\ last_times = [i \in Workers |-> NoTime]
    /\ pool_idle = pool_size
    /\ start_time \in StartTimes
    /\ end_time \in (start_time + 1) .. MaxEnd
    /\ delta \in Deltas
    /\ device_count \in 1 .. MaxDevices
    /\ max_records \in {NoLimit} \cup (1 .. MaxCap)
    /\ main_pc = "while"
    /\ current_time = start_time
    /\ dev = 1
    /\ record_count = 0
    /\ join_i = 0
    /\ in_handler = FALSE
    /\ w_pc = [i \in Workers |-> "start"]
    /\ batch_data = [i \in Workers |-> <<>>]
    /\ loop_i = [i \in Workers |-> 0]
    /\ conn = [i \in Workers |-> FALSE]
    /\ store = EmptyBag
    /\ committed = [i \in Workers |-> 0]
    /\ errors = 0
    /\ generated = {}
    /\ failed_batches = {}
    /\ warned = {}
    /\ points = [i \in Workers |-> {}]
    /\ late_flushes = [i \in Workers |-> 0]

\* ---- the main thread ----

\* line 424: `while running and current_time <= end_time and (...)`
ProduceWhile ==
    /\ main_pc = "while"
    /\ IF ProduceMore
         THEN main_pc' = "for" /\ dev' = 1
         ELSE main_pc' = "sentinel" /\ dev' = dev
    /\ UNCHANGED <<running, data_queue, gen, pool_idle, inputs, current_time,
                   record_count, join_i, in_handler, workerVars, storeVars,
                   stats, generated>>

\* lines 426-447: one pass of `for mn in devices`, or its end / break
ProduceFor ==
    /\ main_pc = "for"
    /\ IF dev > device_count \/ BreakFor
         THEN /\ current_time' = current_time + delta
              /\ main_pc' = "while"
              /\ UNCHANGED <<data_queue, gen, dev, record_count, generated>>
         ELSE LET data == generate_air_quality_data(gen, dev, current_time) IN
              /\ gen' = data.id
              /\ data_queue' = Put(data_queue, data)
              /\ record_count' = record_count + 1
              /\ generated' = generated \cup {data}
              /\ dev' = dev + 1
              /\ UNCHANGED <<current_time, main_pc>>
    /\ UNCHANGED <<running, pool_idle, inputs, join_i, in_handler, workerVars,
                   storeVars, stats>>

\* line 455: data_queue.put(None)
PutSentinel ==
    /\ main_pc = "sentinel"
    /\ data_queue' = Put(data_queue, None)
    /\ main_pc' = "join"
    /\ join_i' = 0
    /\ UNCHANGED <<running, gen, pool_idle, inputs, mainLocals, in_handler,
                   workerVars, storeVars, stats, generated>>

\* lines 458-459: t.join() returns once the thread has ended; after the last
\* one the statistics are printed and `finally` calls cleanup_resources (484)
JoinThread ==
    /\ main_pc = "join"
    /\ w_pc[join_i] = "stopped"
    /\ join_i' = join_i + 1
    /\ main_pc' = IF join_i + 1 = NUM_THREADS THEN "drain" ELSE "join"
    /\ UNCHANGED <<running, data_queue, gen, pool_idle, inputs, mainLocals,
                   in_handler, workerVars, storeVars, stats, generated>>

\* lines 42-51: a termination signal interrupts the main thread mid-run; the
\* handler clears running and enters cleanup_resources.  (SIGINT is bound to
\* the handler too, so KeyboardInterrupt at 449 is never raised.)  The
\* handler runs on the main thread between two of its statements: every
\* queue.Queue method is taken as atomic, and one signal is delivered per run.
MidRun == main_pc \in {"while", "for", "sentinel", "join"}

signal_handler ==
    /\ MidRun
    /\ running' = FALSE
    /\ in_handler' = TRUE
    /\ main_pc' = "drain"
    /\ UNCHANGED <<data_queue, gen, pool_idle, inputs, mainLocals, join_i,
                   workerVars, storeVars, stats, generated>>

\* lines 64-70: `while not data_queue.empty(): get_nowait()` one item per
\* step, then put(None)
CleanupDrain ==
    /\ main_pc = "drain"
    /\ IF data_queue # <<>>
         THEN /\ data_queue' = QueueRest(data_queue)
              /\ UNCHANGED <<main_pc, join_i>>
         ELSE /\ data_queue' = Put(data_queue, None)
              /\ main_pc' = "cjoin"
              /\ UNCHANGED join_i
    /\ UNCHANGED <<running, gen, pool_idle, inputs, mainLocals, in_handler,
                   workerVars, storeVars, stats, generated>>

\* lines 75-81: for each thread, `if t.is_alive(): t.join(timeout=5)`; each
\* join returns when its thread has ended or when the 5 seconds are over,
\* whichever comes first, so the loop always gets through
CleanupJoin ==
    /\ main_pc = "cjoin"
    /\ main_pc' = "release"
    /\ UNCHANGED <<running, data_queue, gen, pool_idle, inputs, mainLocals,
                   join_i, in_handler, workerVars, storeVars, stats, generated>>

\* lines 84-98: every connection found in connection_pool._cnx_queue is taken
\* out and closed.  Back in signal_handler, sys.exit(0) (line 52) unwinds
\* main, whose `finally` (484) runs cleanup_resources a second time.
CleanupRelease ==
    /\ main_pc = "release"
    /\ pool_idle' = 0
    /\ main_pc' = IF in_handler THEN "drain" ELSE "done"
    /\ in_handler' = FALSE
    /\ UNCHANGED <<running, data_queue, gen, inputs, mainLocals, join_i,
                   workerVars, storeVars, stats, generated>>

\* ---- the workers: batch_insert_data(connection_pool, thread_id) ----

\* `except Queue.Empty` (line 196): Queue is the class queue.Queue, which has
\* no attribute Empty, so evaluating the clause raises AttributeError and the
\* timeout of data_queue.get is not caught there: `continue` is never run.
EmptyCaught == FALSE

\* a for loop that runs one iteration too many
AfterIterationLoose(n, b) ==
    IF n <= BATCH_SIZE THEN "get"
    ELSE IF b # <<>> THEN "flush_rest" ELSE "while"

\* Where the `for _ in range(BATCH_SIZE)` loop goes after n iterations with
\* buffer b: the next get, or past the loop to lines 223-228.
AfterIteration(n, b) ==
    IF n < BATCH_SIZE THEN "get"
    ELSE IF b # <<>> THEN "flush_rest" ELSE "while"

\* line 213: `if len(batch_data) >= BATCH_SIZE`
BatchFull(b) == Len(b) >= BATCH_SIZE

\* the buffer carried over into the next pass
FreshBatchKept(b) == b
\* line 189: `batch_data = []` at the top of each `while running` pass
FreshBatch(b) == <<>>

\* the flushes followed by `insert_counts[thread_id] += len(batch_data)`:
\* lines 214-219 and 224-228, but not the sentinel flush at 204-206
CountsInsert(pc) == pc \in {"flush_full", "flush_rest"}

\* a count that is raised whatever the outcome of the store call
CountAddedEarly(pc, b, k) ==
    IF CountsInsert(pc) THEN Len(b) ELSE 0

\* what a flush at pc with outcome k adds to insert_counts[thread_id]:
\* lines 219 and 228 come after conn.commit(), so a mysql error (230) skips
\* them
CountAdded(pc, b, k) ==
    IF k = 0 /\ CountsInsert(pc) THEN Len(b) ELSE 0

\* check_time_order, lines 152-167: TRUE when a warning is printed
TimeOrderAnomaly(last, b) ==
    \/ \E i \in 2 .. Len(b) : b[i].monitor_time < b[i - 1].monitor_time
    \/ (last # NoTime /\ b[1].monitor_time < last)

\* the ids of a batch as a bag: the rows one executemany adds
BatchRows(b) == SetToBag({b[k].id : k \in 1 .. Len(b)})

\* outcomes of do_batch_insert + commit: 0 is success, k > 0 is a
\* mysql.connector.Error caused by record k of the batch
Outcomes(b) == IF errors < MaxErrors THEN 0 .. Len(b) ELSE {0}

\* a worker that on its way out closes every worker's connection, not
\* only its own
ExitClosesAll(w) ==
    /\ w_pc' = [w_pc EXCEPT ![w] = "stopped"]
    /\ batch_data' = [batch_data EXCEPT ![w] = <<>>]
    /\ loop_i' = [loop_i EXCEPT ![w] = 0]
    /\ conn' = [v \in Workers |-> FALSE]
    /\ pool_idle' = IF conn[w] THEN pool_idle + 1 ELSE pool_idle

\* `finally` (lines 245-253): the worker ends; conn.close() on a pooled
\* connection hands it back to the pool's queue
Exit(w) ==
    /\ w_pc' = [w_pc EXCEPT ![w] = "stopped"]
    /\ batch_data' = [batch_data EXCEPT ![w] = <<>>]
    /\ loop_i' = [loop_i EXCEPT ![w] = 0]
    /\ conn' = [conn EXCEPT ![w] = FALSE]
    /\ pool_idle' = IF conn[w] THEN pool_idle + 1 ELSE pool_idle

\* lines 183-184: get_connection raises PoolError when the pool's queue is
\* empty; `except Exception` (242) then ends the worker
WorkerStart(w) ==
    /\ w_pc[w] = "start"
    /\ IF pool_idle > 0
         THEN /\ pool_idle' = pool_idle - 1
              /\ conn' = [conn EXCEPT ![w] = TRUE]
              /\ w_pc' = [w_pc EXCEPT ![w] = "while"]
              /\ UNCHANGED <<batch_data, loop_i>>
         ELSE Exit(w)
    /\ UNCHANGED <<running, data_queue, gen, inputs, main_pc, mainLocals,
                   join_i, in_handler, storeVars, stats, generated>>

\* lines 187-189: `while running:` then `batch_data = []`
WorkerWhile(w) ==
    /\ w_pc[w] = "while"
    /\ IF running
         THEN /\ w_pc' = [w_pc EXCEPT ![w] = "get"]
              /\ batch_data' = [batch_data EXCEPT ![w] = FreshBatch(@)]
              /\ loop_i' = [loop_i EXCEPT ![w] = 0]
              /\ UNCHANGED <<conn, pool_idle>>
         ELSE Exit(w)
    /\ UNCHANGED <<running, data_queue, gen, inputs, main_pc, mainLocals,
                   join_i, in_handler, storeVars, stats, generated>>

\* lines 192-213: one iteration of the for loop: data_queue.get(timeout=1)
WorkerGet(w) ==
    /\ w_pc[w] = "get"
    /\ IF data_queue = <<>>
         THEN \* the get times out
              /\ IF EmptyCaught
                   THEN /\ loop_i' = [loop_i EXCEPT ![w] = @ + 1]
                        /\ w_pc' = [w_pc EXCEPT ![w] =
                               AfterIteration(loop_i[w] + 1, batch_data[w])]
                        /\ UNCHANGED <<batch_data, conn, pool_idle>>
                   ELSE Exit(w)
              /\ UNCHANGED <<data_queue, points>>
         ELSE LET data == QueueFront(data_queue) IN
              /\ data_queue' = QueueRest(data_queue)
              /\ IF data = None
                   THEN /\ w_pc' = [w_pc EXCEPT ![w] = "putback"]
                        /\ UNCHANGED <<batch_data, loop_i, points>>
                   ELSE LET b == Append(batch_data[w], data) IN
                        /\ batch_data' = [batch_data EXCEPT ![w] = b]
                        /\ points' = [points EXCEPT ![w] =
                               @ \cup {data.monitor_time}]
                        /\ loop_i' = [loop_i EXCEPT ![w] = @ + 1]
                        /\ w_pc' = [w_pc EXCEPT ![w] =
                               IF BatchFull(b) THEN "flush_full"
                               ELSE AfterIteration(loop_i[w] + 1, b)]
              /\ UNCHANGED <<conn, pool_idle>>
    /\ UNCHANGED <<running, gen, inputs, main_pc, mainLocals, join_i,
                   in_handler, storeVars, insert_counts, last_times, warned,
                   late_flushes, generated>>

\* the sentinel kept by the worker that took it: line 201 left out
WorkerPutBackKeeps(w) ==
    /\ w_pc[w] = "putback"
    /\ UNCHANGED data_queue
    /\ IF batch_data[w] # <<>>
         THEN /\ w_pc' = [w_pc EXCEPT ![w] = "flush_final"]
              /\ UNCHANGED <<batch_data, loop_i, conn, pool_idle>>
         ELSE Exit(w)
    /\ UNCHANGED <<running, gen, inputs, main_pc, mainLocals, join_i,
                   in_handler, storeVars, stats, generated>>

\* lines 201-207: the sentinel goes back on the queue; with an empty buffer
\* the worker returns at once
WorkerPutBack(w) ==
    /\ w_pc[w] = "putback"
    /\ data_queue' = Put(data_queue, None)
    /\ IF batch_data[w] # <<>>
         THEN /\ w_pc' = [w_pc EXCEPT ![w] = "flush_final"]
              /\ UNCHANGED <<batch_data, loop_i, conn, pool_idle>>
         ELSE Exit(w)
    /\ UNCHANGED <<running, gen, inputs, main_pc, mainLocals, join_i,
                   in_handler, storeVars, stats, generated>>

\* check_time_order + do_batch_insert + conn.commit() (+ the count) at lines
\* 204-206, 214-220 and 224-228, and on a store error lines 230-240
Flush(w) ==
    /\ w_pc[w] \in {"flush_full", "flush_rest", "flush_final"}
    /\ LET b == batch_data[w] IN
       /\ warned' = IF TimeOrderAnomaly(last_times[w], b)
                      THEN warned \cup {w} ELSE warned
       /\ last_times' = [last_times EXCEPT ![w] = b[Len(b)].monitor_time]
       /\ late_flushes' = [late_flushes EXCEPT ![w] =
                              IF running THEN @ ELSE @ + 1]
       /\ \E k \in Outcomes(b) :
            /\ insert_counts' = [insert_counts EXCEPT ![w] =
                                    @ + CountAdded(w_pc[w], b, k)]
            /\ IF k = 0
                 THEN /\ store' = store (+) BatchRows(b)
                      /\ committed' = [committed EXCEPT ![w] = @ + Len(b)]
                      /\ UNCHANGED <<errors, failed_batches>>
                      /\ IF w_pc[w] = "flush_final"
                           THEN Exit(w)
                           ELSE /\ IF w_pc[w] = "flush_full"
                                     THEN /\ batch_data' =
                                               [batch_data EXCEPT ![w] = <<>>]
                                          /\ w_pc' = [w_pc EXCEPT ![w] =
                                               AfterIteration(loop_i[w], <<>>)]
                                     ELSE /\ UNCHANGED batch_data
                                          /\ w_pc' = [w_pc EXCEPT ![w] = "while"]
                                /\ UNCHANGED <<loop_i, conn, pool_idle>>
                 ELSE /\ errors' = errors + 1
                      /\ failed_batches' = failed_batches \cup
                           {[thread_id |-> w, batch |-> b, bad |-> k]}
                      /\ w_pc' = [w_pc EXCEPT ![w] = "while"]
                      /\ UNCHANGED <<store, committed, batch_data, loop_i,
                                     conn, pool_idle>>
    /\ UNCHANGED <<running, data_queue, gen, inputs, main_pc, mainLocals,
                   join_i, in_handler, generated, points>>

Next ==
    \/ ProduceWhile
    \/ ProduceFor
    \/ PutSentinel
    \/ JoinThread
    \/ signal_handler
    \/ CleanupDrain
    \/ CleanupJoin
    \/ CleanupRelease
    \/ \E w \in Workers : WorkerStart(w)
    \/ \E w \in Workers : WorkerWhile(w)
    \/ \E w \in Workers : WorkerGet(w)
    \/ \E w \in Workers : WorkerPutBack(w)
    \/ \E w \in Workers : Flush(w)

Spec == Init /\ [][Next]_vars

\* Threads are scheduled fairly: the main thread and every worker thread keep
\* taking steps while they can, and a store call returns.  A termination
\* signal may or may not arrive.
MainStep ==
    \/ ProduceWhile
    \/ ProduceFor
    \/ PutSentinel
    \/ JoinThread
    \/ CleanupDrain
    \/ CleanupJoin
    \/ CleanupRelease

WorkerStep(w) ==
    \/ WorkerStart(w)
    \/ WorkerWhile(w)
    \/ WorkerGet(w)
    \/ WorkerPutBack(w)
    \/ Flush(w)

Fairness ==
    /\ WF_vars(MainStep)
    /\ \A w \in Workers : WF_vars(WorkerStep(w))

\* The runs checked for progress: the same program on fewer inputs (the
\* earliest start, the shortest interval, one device, no cap or the largest
\* one).
FairInit ==
    /\ Init
    /\ start_time = 0
    /\ delta = 1
    /\ device_count = 1
    /\ max_records \in {NoLimit, MaxCap}

FairSpec == FairInit /\ [][Next]_vars /\ Fairness

\* ---- properties ----

FlushPcs == {"flush_full", "flush_rest", "flush_final"}
AllStopped == \A w \in Workers : w_pc[w] = "stopped"
Persisted(r) == BagIn(r.id, store)
LoggedFailed(r) ==
    \E f \in failed_batches : \E k \in 1 .. Len(f.batch) : f.batch[k] = r

\* C1: every batch a worker is about to flush has non-decreasing timestamps
\* and starts no earlier than the worker's previously flushed batch ended, so
\* check_time_order never prints a warning.
C1_TimeOrder ==
    /\ warned = {}
    /\ \A w \in Workers :
         w_pc[w] \in FlushPcs =>
            ~TimeOrderAnomaly(last_times[w], batch_data[w])

\* a worker flushing a later batch that spans two time points, while the
\* other worker has flushed too
C1_Witness ==
    \E w \in Workers : \E v \in Workers \ {w} :
        /\ w_pc[w] \in FlushPcs
        /\ last_times[w] # NoTime
        /\ last_times[v] # NoTime
        /\ Len(batch_data[w]) = 2
        /\ batch_data[w][1].monitor_time < batch_data[w][2].monitor_time

\* C2: every record a worker commits is counted in insert_counts, on every
\* flush path including the sentinel's final partial batch.
C2_EveryCommitCounted ==
    \A w \in Workers : insert_counts[w] = committed[w]

\* C3: after a batch insert failed on one malformed record, every other
\* record of that batch is persisted (row-level fallback).
C3_FallbackPersistsOthers ==
    \A f \in failed_batches :
        \A k \in 1 .. Len(f.batch) :
            k # f.bad => Persisted(f.batch[k])

\* C5: once a termination request has been fully handled, no pooled
\* connection is open: none idle in the pool, none held by a worker.
C5_NoOpenConnection ==
    (~running /\ main_pc = "done") =>
        (pool_idle = 0 /\ \A w \in Workers : ~conn[w])

\* C6: a worker's buffer, and so every batch given to do_batch_insert, never
\* holds more than BATCH_SIZE records.
C6_BatchBounded ==
    \A w \in Workers : Len(batch_data[w]) <= BATCH_SIZE

\* a full batch about to be flushed in a pass that follows a failed batch,
\* the other worker having stopped already
C6_Witness ==
    \E w \in Workers : \E v \in Workers \ {w} :
        /\ w_pc[w] = "flush_full"
        /\ Len(batch_data[w]) = BATCH_SIZE
        /\ w_pc[v] = "stopped"
        /\ errors > 0

\* C7: no two persisted rows carry the same record id.
C7_UniqueIds ==
    \A i \in BagToSet(store) : CopiesIn(i, store) = 1

\* both workers have committed rows and a failed batch was rolled back
C7_Witness ==
    /\ \A w \in Workers : committed[w] > 0
    /\ failed_batches # {}
    /\ BagCardinality(store) >= 3

\* C8: when the run is over, every generated record is persisted or belongs
\* to a logged failed batch.
C8_NoSilentLoss ==
    (AllStopped /\ main_pc = "done") =>
        \A r \in generated : Persisted(r) \/ LoggedFailed(r)

\* C9: without a cap and without a termination request the producer
\* generates one record per (device, time point), time points being
\* start, start + delta, ... <= end: (floor((end - start) / delta) + 1) *
\* device_count records.
TimePoints ==
    {t \in start_time .. end_time : (t - start_time) % delta = 0}
ProducerDone == running /\ main_pc \notin {"while", "for"}
C9_RecordCount ==
    (ProducerDone /\ max_records = NoLimit) =>
        /\ record_count =
             (((end_time - start_time) \div delta) + 1) * device_count
        /\ Cardinality(generated) = record_count
        /\ {<<r.mn, r.monitor_time>> : r \in generated} =
             (1 .. device_count) \X TimePoints

\* the range is not a multiple of the interval and there are two devices
C9_Witness ==
    /\ ProducerDone
    /\ max_records = NoLimit
    /\ (end_time - start_time) % delta # 0
    /\ device_count = 2
    /\ record_count = 2

\* C4: when the controller has finished its bounded wait after a termination
\* request and turns to releasing the pool, every worker has stopped.
C4_AllStoppedAfterWait ==
    (~running /\ main_pc = "release") => AllStopped

\* C10 (as claimed): a worker that stops while a sentinel is on the queue
\* does so by having dequeued a sentinel.
C10_StopsBySentinel ==
    [][\A w \in Workers :
          (HasSentinel(data_queue) /\ w_pc[w] # "stopped"
              /\ w_pc'[w] = "stopped")
          => w_pc[w] \in {"putback", "flush_final"}]_vars

\* C10 (amended): once a sentinel is on the queue every worker eventually
\* stops; a worker that took a sentinel puts one back as its next step; and
\* a sentinel only leaves the queue into the hands of a worker about to put
\* it back or of cleanup_resources, which puts a new one after draining.
C10_SentinelStopsAll ==
    /\ HasSentinel(data_queue) ~> AllStopped
    /\ [][\A w \in Workers :
            (w_pc[w] = "putback" /\ w_pc'[w] # "putback")
            => HasSentinel(data_queue')]_vars
    /\ [][HasSentinel(data_queue) =>
            \/ HasSentinel(data_queue')
            \/ \E w \in Workers : w_pc'[w] = "putback"
            \/ main_pc' = "drain"]_vars
    /\ [][(main_pc = "drain" /\ main_pc' # "drain")
            => HasSentinel(data_queue')]_vars

\* both workers stopped on the sentinel's path, the second after the first
\* had put the sentinel back: each committed a final partial batch that
\* only the sentinel flush leaves uncounted
C10_Witness ==
    /\ AllStopped
    /\ HasSentinel(data_queue)
    /\ \A w \in Workers : committed[w] > insert_counts[w]

\* C11: a step in which worker w meets an error (a store error in its flush,
\* a queue timeout or a failed get_connection that ends it) changes nothing
\* of any other worker: status, buffer, count, last time, connection.
ErrorStep(w) ==
    \/ (w_pc[w] \in FlushPcs /\ errors' = errors + 1 /\ w_pc'[w] = "while")
    \/ (w_pc[w] \in {"start", "get"} /\ w_pc'[w] = "stopped")
C11_ErrorIsLocal ==
    [][\A w \in Workers : ErrorStep(w) =>
          \A v \in Workers \ {w} :
              /\ w_pc'[v] = w_pc[v]
              /\ batch_data'[v] = batch_data[v]
              /\ loop_i'[v] = loop_i[v]
              /\ insert_counts'[v] = insert_counts[v]
              /\ last_times'[v] = last_times[v]
              /\ conn'[v] = conn[v]]_vars

\* one worker has had a batch fail and the other, holding its connection
\* and a buffered record, has committed a batch since and is consuming
C11_Witness ==
    \E f \in failed_batches : \E v \in Workers \ {f.thread_id} :
        /\ w_pc[v] = "get"
        /\ batch_data[v] # <<>>
        /\ conn[v]
        /\ committed[v] > 0

PoolReleased == ~running /\ ~in_handler
Contiguous(S) ==
    \A a \in S : \A b \in S : \A t \in TimePoints : (a < t /\ t < b) => t \in S
RunEndedClean ==
    running /\ main_pc = "done" /\ AllStopped /\ errors = 0
C13_RangePartitioned ==
    /\ \A v \in Workers : \A w \in Workers \ {v} : points[v] \cap points[w] = {}
    /\ \A w \in Workers : Contiguous(points[w])
    /\ RunEndedClean =>
         /\ UNION {points[w] : w \in Workers} = TimePoints
         /\ \A v \in Workers : \A w \in Workers :
                Cardinality(points[v]) - Cardinality(points[w]) <= 1

\* C14: a timed-out get (the queue found empty) neither ends the worker nor
\* costs it the records in its buffer: the worker goes on in its loop.
C14_TimeoutIsBenign ==
    [][\A w \in Workers :
          (w_pc[w] = "get" /\ data_queue = <<>> /\ w_pc'[w] # w_pc[w]) =>
              /\ w_pc'[w] # "stopped"
              /\ batch_data'[w] = batch_data[w]]_vars

\* C15: a worker stops with records in its buffer only when the stopping
\* step is itself their flush, or they were handed to a flush in the pass
\* that has just ended (the buffer seen at the `while` test).
C15_StopsFlushed ==
    [][\A w \in Workers :
          (w_pc[w] # "stopped" /\ w_pc'[w] = "stopped"
                /\ batch_data[w] # <<>>) =>
              w_pc[w] \in FlushPcs \cup {"while"}]_vars

\* C16: no worker begins more than one flush with the running flag false,
\* and a worker that has begun one is on its way out: it is at the `while`
\* test, which it fails, or has stopped.
C16_OneLateFlush ==
    \A w \in Workers :
        /\ late_flushes[w] <= 1
        /\ late_flushes[w] = 1 => w_pc[w] \in {"while", "stopped"} /\ ~running

\* a worker has flushed a batch after the flag was cleared and has stopped,
\* while records it did not take are still on the queue
C16_Witness ==
    \E w \in Workers :
        /\ late_flushes[w] = 1
        /\ w_pc[w] = "stopped"
        /\ committed[w] > 0
        /\ \E k \in 1 .. Len(data_queue) : data_queue[k] # None

\* C17: with a maximum record count set the producer never enqueues more
\* records than that, and once it has left its loop with no termination
\* request it has enqueued exactly the smaller of the maximum and
\* (time points) x (devices).
Min(a, b) == IF a <= b THEN a ELSE b
C17_RecordCap ==
    max_records # NoLimit =>
        /\ record_count <= max_records
        /\ Cardinality(generated) = record_count
        /\ ProducerDone =>
             record_count =
                 Min(max_records, Cardinality(TimePoints) * device_count)

\* the producer has left its loop at the cap, partway through the device
\* list of a time point: one device's record of that time point is enqueued
\* and the other's is not
C17_Witness ==
    /\ ProducerDone
    /\ max_records # NoLimit
    /\ record_count = max_records
    /\ device_count = 2
    /\ \E t \in TimePoints :
          Cardinality({r \in generated : r.monitor_time = t}) = 1

\* C18: with no termination request and no store error, once the producer
\* has sent the sentinel and every worker has stopped, each generated
\* record is in the store exactly once and the store holds record_count
\* rows.
C18_AllPersistedOnce ==
    (running /\ errors = 0 /\ AllStopped
          /\ main_pc \notin {"while", "for", "sentinel"}) =>
        /\ \A r \in generated : CopiesIn(r.id, store) = 1
        /\ BagCardinality(store) = record_count

\* C19: insert_counts[w] never exceeds the number of records worker w has
\* committed, and a step that logs a failed batch leaves every count as
\* it was.
C19_CountWithinCommitted ==
    /\ [](\A w \in Workers : insert_counts[w] <= committed[w])
    /\ [][failed_batches' # failed_batches =>
             insert_counts' = insert_counts]_vars

\* a worker has counted one committed batch and has had another batch fail
C19_Witness ==
    \E f \in failed_batches :
        /\ insert_counts[f.thread_id] > 0
        /\ insert_counts[f.thread_id] = committed[f.thread_id]

====
